---- MODULE Spec2Model ----
(***************************************************************************)
(* Event-driven backtesting engine of backtester_xbtusd_mac.py:            *)
(* MarketDataSource replays bars, MACStrategy turns the crossover signal   *)
(* into market orders, Backtester matches pending orders against the next  *)
(* bar's open, Position keeps the ledger, and the module-level block       *)
(* liquidates the open position after the last bar.                        *)
(*                                                                         *)
(* Abstractions, all stated where they are made:                           *)
(*  - the EWMA crossover value enters as a per-tick input (its sign is     *)
(*    what the strategy reads); on a one-row price frame it is 0;          *)
(*  - a float is a record [nan, val]; comparisons with NaN are false;      *)
(*  - the standard deviation is NaN (too few rows) or it is represented by *)
(*    0 / 1 for zero / positive, which is all 0 * volatility can tell.     *)
(***************************************************************************)
EXTENDS Integers, Sequences, FiniteSets

VARIABLES
    pc,               \* where the program is: a step of the tick loop or of liquidation
    md,               \* MarketData.__recent_ticks__ : symbol -> TickData
    current_prices,   \* Backtester.current_prices : "None" or "md"
    prices,           \* MACStrategy.prices : rows [timestamp, close, open]
    signal_value,     \* on_tick_event local, last computed
    signal_threshold, \* on_tick_event local, last computed
    is_long,          \* MACStrategy.is_long
    is_short,         \* MACStrategy.is_short
    orders,           \* every Order object created so far (the heap)
    unfilled_orders,  \* Backtester.unfilled_orders : references into orders
    positions,        \* Backtester.positions : symbol -> Position
    cash,             \* Backtester.cash
    rpnl,             \* Backtester.rpnl series        : rows [key, val]
    upnl,             \* Backtester.upnl series        : rows [key, val]
    equity_curve,     \* Backtester.equity_curve series: rows [key, val]
    fills,            \* the calls Position.event_fill has received, in order
    exited            \* sys.exit has been called

vars == <<pc, md, current_prices, prices, signal_value, signal_threshold,
          is_long, is_short, orders, unfilled_orders, positions, cash,
          rpnl, upnl, equity_curve, fills, exited>>

-----------------------------------------------------------------------------
(* Program constants and model bounds *)

STARTING_CASH == 1000000

NUM_CONTRACTS == 100

\* calculate_mac(20, 50): the spans; volatility_fraction = 0
volatility_fraction == 0

lookback_intervals == 20

\* Timestamps of the replayed bars are drawn, strictly increasing, from
\* 1..MaxTime; so at most MaxTime bars are replayed and gaps are possible.
MaxTime == 5

target_symbol == "XBTUSD"

\* The bars (Open, Close) the data source may deliver.
Bars == { [open |-> 4000,  close |-> 5000],
          [open |-> 6000,  close |-> 5500],
          [open |-> 11000, close |-> 15000] }

\* The values the crossover may take (only the sign is read).
MacValues == {-1, 0, 1}

-----------------------------------------------------------------------------
(* Floats with NaN *)

NaN == [nan |-> TRUE, val |-> 0]

Num(v) == [nan |-> FALSE, val |-> v]

FGt(a, b) == ~a.nan /\ ~b.nan /\ a.val > b.val

FLt(a, b) == ~a.nan /\ ~b.nan /\ a.val < b.val

FNeg(a) == IF a.nan THEN NaN ELSE Num(-a.val)

FMul(a, b) == IF a.nan \/ b.nan THEN NaN ELSE Num(a.val * b.val)

Abs(x) == IF x < 0 THEN -x ELSE x

-----------------------------------------------------------------------------
(* Containers *)

EmptyDict == [s \in {} |-> 0]

\* Faulty variant: a row is appended even when the key exists.
LocSet_always_appends(series, key, val) ==
    Append(series, [key |-> key, val |-> val])

\* pandas  frame.loc[key, col] = val : overwrite the row of an existing key,
\* else append a row.
LocSet(series, key, val) ==
    IF \E i \in 1..Len(series) : series[i].key = key
    THEN [i \in 1..Len(series) |->
            IF series[i].key = key THEN [key |-> key, val |-> val]
            ELSE series[i]]
    ELSE Append(series, [key |-> key, val |-> val])

\* The mutable state the methods below read and write, as one record.
World == [md |-> md, current_prices |-> current_prices, prices |-> prices,
          signal_value |-> signal_value,
          signal_threshold |-> signal_threshold,
          is_long |-> is_long, is_short |-> is_short, orders |-> orders,
          unfilled_orders |-> unfilled_orders, positions |-> positions,
          cash |-> cash, rpnl |-> rpnl, upnl |-> upnl,
          equity_curve |-> equity_curve, fills |-> fills,
          exited |-> exited]

Apply(w) ==
    /\ md' = w.md
    /\ current_prices' = w.current_prices
    /\ prices' = w.prices
    /\ signal_value' = w.signal_value
    /\ signal_threshold' = w.signal_threshold
    /\ is_long' = w.is_long
    /\ is_short' = w.is_short
    /\ orders' = w.orders
    /\ unfilled_orders' = w.unfilled_orders
    /\ positions' = w.positions
    /\ cash' = w.cash
    /\ rpnl' = w.rpnl
    /\ upnl' = w.upnl
    /\ equity_curve' = w.equity_curve
    /\ fills' = w.fills
    /\ exited' = w.exited

-----------------------------------------------------------------------------
(* MarketData *)

TickData(symbol, timestamp, last_price) ==
    [symbol |-> symbol, timestamp |-> timestamp, open_price |-> 0,
     last_price |-> last_price]

add_last_price(ticks, time, symbol, price) ==
    [s \in DOMAIN ticks \cup {symbol} |->
        IF s = symbol THEN TickData(symbol, time, price) ELSE ticks[s]]

get_existing_tick_data(ticks, symbol, time) ==
    IF symbol \notin DOMAIN ticks
    THEN [s \in DOMAIN ticks \cup {symbol} |->
            IF s = symbol THEN TickData(symbol, time, 0) ELSE ticks[s]]
    ELSE ticks

add_open_price(ticks, time, symbol, price) ==
    LET t == get_existing_tick_data(ticks, symbol, time)
    IN  [t EXCEPT ![symbol].open_price = price]

get_last_price(ticks, symbol) == ticks[symbol].last_price

get_open_price(ticks, symbol) == ticks[symbol].open_price

get_timestamp(ticks, symbol) == ticks[symbol].timestamp

-----------------------------------------------------------------------------
(* Order, Position *)

Order(timestamp, symbol, qty, is_buy, is_market_order) ==
    [timestamp |-> timestamp, symbol |-> symbol, qty |-> qty,
     is_buy |-> is_buy, is_market_order |-> is_market_order,
     is_filled |-> FALSE, filled_price |-> 0, filled_timestamp |-> 0,
     filled_qty |-> 0]

Position(symbol) ==
    [symbol |-> symbol, buys |-> 0, sells |-> 0, net |-> 0,
     realized_pnl |-> 0, unrealized_pnl |-> 0, position_value |-> 0,
     equity |-> STARTING_CASH]

\* Faulty variant: realized_pnl snapshotted on every fill.
event_fill_always_realizes(p, is_buy, qty, price) ==
    LET p1 == IF is_buy THEN [p EXCEPT !.buys = @ + qty]
                        ELSE [p EXCEPT !.sells = @ + qty]
        p2 == [p1 EXCEPT !.net = p1.buys - p1.sells]
        changed_value == qty * price * (IF is_buy THEN -1 ELSE 1)
        p3 == [p2 EXCEPT !.position_value = @ + changed_value]
    IN  [p3 EXCEPT !.realized_pnl = p3.position_value]

event_fill(p, is_buy, qty, price) ==
    LET p1 == IF is_buy THEN [p EXCEPT !.buys = @ + qty]
                        ELSE [p EXCEPT !.sells = @ + qty]
        p2 == [p1 EXCEPT !.net = p1.buys - p1.sells]
        changed_value == qty * price * (IF is_buy THEN -1 ELSE 1)
        p3 == [p2 EXCEPT !.position_value = @ + changed_value]
    IN  IF p3.net = 0 THEN [p3 EXCEPT !.realized_pnl = p3.position_value]
        ELSE p3

update_unrealized_pnl(p, price) ==
    IF p.net = 0 THEN [p EXCEPT !.unrealized_pnl = 0]
    ELSE [p EXCEPT !.unrealized_pnl = price * p.net + p.position_value]

update_equity(p, price, csh) == [p EXCEPT !.equity = csh + price * p.net]

-----------------------------------------------------------------------------
(* Strategy / MACStrategy *)

update_position_status(w) ==
    IF target_symbol \in DOMAIN w.positions
    THEN [w EXCEPT !.is_long = (w.positions[target_symbol].net > 0),
                   !.is_short = (w.positions[target_symbol].net < 0)]
    ELSE w

handle_order(w, order) ==
    [w EXCEPT !.orders = Append(@, order),
              !.unfilled_orders = Append(@, Len(w.orders) + 1)]

\* event_sendorder is set by start_backtest before any tick is delivered.
send_market_order(w, symbol, qty, is_buy, timestamp) ==
    handle_order(w, Order(timestamp, symbol, qty, is_buy, TRUE))

store_prices(w) ==
    LET timestamp == get_timestamp(w.md, target_symbol)
        row == [timestamp |-> timestamp,
                close |-> get_last_price(w.md, target_symbol),
                open |-> get_open_price(w.md, target_symbol)]
    IN  IF \E i \in 1..Len(w.prices) : w.prices[i].timestamp = timestamp
        THEN [w EXCEPT !.prices =
                [i \in 1..Len(w.prices) |->
                    IF w.prices[i].timestamp = timestamp THEN row
                    ELSE w.prices[i]]]
        ELSE [w EXCEPT !.prices = Append(@, row)]

\* ewm(span).mean() of one observation is that observation for every span,
\* so the crossover of a one-row frame is 0.  On longer frames the value is a
\* floating-point function of all closes (rounding alone can make it nonzero
\* on constant closes); the strategy reads its sign only, and the model takes
\* the value as the input mac, so every sign sequence is covered.
calculate_mac(prs, mac) == IF Len(prs) = 1 THEN 0 ELSE mac

\* prices[-lookback:]["close"].diff().dropna().std(): NaN with fewer than two
\* differences; else zero exactly when all differences are equal.
calculate_volatility(prs) ==
    LET n == Len(prs)
        from == IF n > lookback_intervals THEN n - lookback_intervals + 1
                ELSE 1
        returns == [i \in 1..(n - from) |->
                      prs[from + i].close - prs[from + i - 1].close]
    IN  IF n - from < 2 THEN NaN
        ELSE IF \A i \in 1..Len(returns) : returns[i] = returns[1]
             THEN Num(0) ELSE Num(1)

\* Faulty variant: the strategy marks itself long when it submits the buy.
on_buy_signal_marks_long(w, timestamp) ==
    IF ~w.is_long
    THEN [send_market_order(w, target_symbol, NUM_CONTRACTS, TRUE, timestamp)
            EXCEPT !.is_long = TRUE, !.is_short = FALSE]
    ELSE w

\* Faulty variant: the buy is submitted whatever the position state.
on_buy_signal_unguarded(w, timestamp) ==
    send_market_order(w, target_symbol, NUM_CONTRACTS, TRUE, timestamp)

on_buy_signal(w, timestamp) ==
    IF ~w.is_long
    THEN send_market_order(w, target_symbol, NUM_CONTRACTS, TRUE, timestamp)
    ELSE w

\* Faulty variant: the sell is submitted whatever the position state.
on_sell_signal_unguarded(w, timestamp) ==
    send_market_order(w, target_symbol, NUM_CONTRACTS, FALSE, timestamp)

on_sell_signal(w, timestamp) ==
    IF ~w.is_short
    THEN send_market_order(w, target_symbol, NUM_CONTRACTS, FALSE, timestamp)
    ELSE w

on_tick_event(w, mac) ==
    LET w1 == store_prices(w)
        sv == Num(calculate_mac(w1.prices, mac))
        timestamp == get_timestamp(w1.md, target_symbol)
        st == FMul(Num(volatility_fraction), calculate_volatility(w1.prices))
        w2 == [w1 EXCEPT !.signal_value = sv, !.signal_threshold = st]
    IN  IF FGt(sv, st) THEN on_buy_signal(w2, timestamp)
        ELSE IF FLt(sv, FNeg(st)) THEN on_sell_signal(w2, timestamp)
        ELSE w2

-----------------------------------------------------------------------------
(* Backtester *)

get_position(w, symbol) ==
    IF symbol \notin DOMAIN w.positions
    THEN [w EXCEPT !.positions =
            [s \in DOMAIN w.positions \cup {symbol} |->
                IF s = symbol THEN Position(symbol) ELSE w.positions[s]]]
    ELSE w

\* Faulty variant: the balance check is missing.
update_filled_position_no_exit(w, symbol, qty, is_buy, price, timestamp) ==
    LET w1 == get_position(w, symbol)
        w2 == [w1 EXCEPT
                 !.positions[symbol] = event_fill(@, is_buy, qty, price),
                 !.fills = Append(@, [timestamp |-> timestamp,
                                      is_buy |-> is_buy, qty |-> qty,
                                      price |-> price])]
        w3 == update_position_status(w2)
    IN  [w3 EXCEPT
           !.rpnl = LocSet(@, timestamp, w3.positions[symbol].realized_pnl),
           !.cash = @ - (qty * price * (IF is_buy THEN 1 ELSE -1))]

\* sys.exit at line 302 ends the program: exited is set and the callers
\* below stop where they are.
\* Faulty variant: cash moves with the sign of the order, not against it.
update_filled_position_cash_sign(w, symbol, qty, is_buy, price, timestamp) ==
    LET w1 == get_position(w, symbol)
        w2 == [w1 EXCEPT
                 !.positions[symbol] = event_fill(@, is_buy, qty, price),
                 !.fills = Append(@, [timestamp |-> timestamp,
                                      is_buy |-> is_buy, qty |-> qty,
                                      price |-> price])]
        w3 == update_position_status(w2)
        w4 == [w3 EXCEPT
                 !.rpnl = LocSet(@, timestamp,
                                 w3.positions[symbol].realized_pnl),
                 !.cash = @ + (qty * price * (IF is_buy THEN 1 ELSE -1))]
    IN  IF w4.cash < 0 THEN [w4 EXCEPT !.exited = TRUE] ELSE w4

update_filled_position(w, symbol, qty, is_buy, price, timestamp) ==
    LET w1 == get_position(w, symbol)
        w2 == [w1 EXCEPT
                 !.positions[symbol] = event_fill(@, is_buy, qty, price),
                 !.fills = Append(@, [timestamp |-> timestamp,
                                      is_buy |-> is_buy, qty |-> qty,
                                      price |-> price])]
        w3 == update_position_status(w2)
        w4 == [w3 EXCEPT
                 !.rpnl = LocSet(@, timestamp,
                                 w3.positions[symbol].realized_pnl),
                 !.cash = @ - (qty * price * (IF is_buy THEN 1 ELSE -1))]
    IN  IF w4.cash < 0 THEN [w4 EXCEPT !.exited = TRUE] ELSE w4

\* Faulty variant: >= for >, an order is matched on the tick that submits it.
is_order_unmatched_same_tick(w, o, ticks) ==
    LET order == w.orders[o]
        symbol == order.symbol
        timestamp == get_timestamp(ticks, symbol)
    IN  IF order.is_market_order /\ timestamp >= order.timestamp
        THEN LET open_price == get_open_price(ticks, symbol)
                 w1 == [w EXCEPT !.orders[o].is_filled = TRUE,
                                 !.orders[o].filled_timestamp = timestamp,
                                 !.orders[o].filled_price = open_price]
             IN  [w |-> update_filled_position(w1, symbol, order.qty,
                                               order.is_buy, open_price,
                                               timestamp),
                  unmatched |-> FALSE]
        ELSE [w |-> w, unmatched |-> TRUE]

\* The result is the state after the call and the value returned.  When the
\* call exits the program there is no returned value; unmatched is then unused.
is_order_unmatched(w, o, ticks) ==
    LET order == w.orders[o]
        symbol == order.symbol
        timestamp == get_timestamp(ticks, symbol)
    IN  IF order.is_market_order /\ timestamp > order.timestamp
        THEN LET open_price == get_open_price(ticks, symbol)
                 w1 == [w EXCEPT !.orders[o].is_filled = TRUE,
                                 !.orders[o].filled_timestamp = timestamp,
                                 !.orders[o].filled_price = open_price]
             IN  [w |-> update_filled_position(w1, symbol, order.qty,
                                               order.is_buy, open_price,
                                               timestamp),
                  unmatched |-> FALSE]
        ELSE [w |-> w, unmatched |-> TRUE]

\* The list comprehension of match_order_book from element i on; kept is the
\* list built so far.  The assignment to unfilled_orders happens only when the
\* comprehension completes.
RECURSIVE MatchFrom(_, _, _, _)
MatchFrom(w, ticks, i, kept) ==
    IF i > Len(w.unfilled_orders)
    THEN [w EXCEPT !.unfilled_orders = kept]
    ELSE LET r == is_order_unmatched(w, w.unfilled_orders[i], ticks)
         IN  IF r.w.exited THEN r.w
             ELSE MatchFrom(r.w, ticks, i + 1,
                            IF r.unmatched
                            THEN Append(kept, w.unfilled_orders[i])
                            ELSE kept)

\* Faulty variant: the filtered list is computed and not assigned.
match_order_book_keeps_all(w, ticks) ==
    IF Len(w.unfilled_orders) > 0
    THEN [MatchFrom(w, ticks, 1, <<>>)
            EXCEPT !.unfilled_orders = w.unfilled_orders]
    ELSE w

\* Faulty variant: the pending list is walked from its end.
match_order_book_reversed(w, ticks) ==
    LET n == Len(w.unfilled_orders)
        rev == [i \in 1..n |-> w.unfilled_orders[n + 1 - i]]
    IN  IF n > 0
        THEN MatchFrom([w EXCEPT !.unfilled_orders = rev], ticks, 1, <<>>)
        ELSE w

match_order_book(w, ticks) ==
    IF Len(w.unfilled_orders) > 0 THEN MatchFrom(w, ticks, 1, <<>>) ELSE w

\* Faulty variant: a flat ledger is not marked.
print_position_status_skips_flat(w, symbol, ticks) ==
    IF symbol \in DOMAIN w.positions /\ w.positions[symbol].net # 0
    THEN LET close_price == get_last_price(ticks, symbol)
             p1 == update_unrealized_pnl(w.positions[symbol], close_price)
             p2 == update_equity(p1, close_price, w.cash)
         IN  [w EXCEPT !.positions[symbol] = p2,
                       !.upnl = LocSet(@, get_timestamp(w.md, target_symbol),
                                       p1.unrealized_pnl),
                       !.equity_curve =
                           LocSet(@, get_timestamp(w.md, target_symbol),
                                  p2.equity)]
    ELSE w

\* Faulty variant: marked at the open of the tick.
print_position_status_at_open(w, symbol, ticks) ==
    IF symbol \in DOMAIN w.positions
    THEN LET open_price == get_open_price(ticks, symbol)
             p1 == update_unrealized_pnl(w.positions[symbol], open_price)
             p2 == update_equity(p1, open_price, w.cash)
         IN  [w EXCEPT !.positions[symbol] = p2,
                       !.upnl = LocSet(@, get_timestamp(w.md, target_symbol),
                                       p1.unrealized_pnl),
                       !.equity_curve =
                           LocSet(@, get_timestamp(w.md, target_symbol),
                                  p2.equity)]
    ELSE w

print_position_status(w, symbol, ticks) ==
    IF symbol \in DOMAIN w.positions
    THEN LET close_price == get_last_price(ticks, symbol)
             p1 == update_unrealized_pnl(w.positions[symbol], close_price)
             p2 == update_equity(p1, close_price, w.cash)
         IN  [w EXCEPT !.positions[symbol] = p2,
                       !.upnl = LocSet(@, get_timestamp(w.md, target_symbol),
                                       p1.unrealized_pnl),
                       !.equity_curve =
                           LocSet(@, get_timestamp(w.md, target_symbol),
                                  p2.equity)]
    ELSE w

\* Faulty variant: the order book is matched before the strategy is called.
handle_incoming_tick_match_first(after) ==
    CASE after = "enter"    -> "match"
      [] after = "match"    -> "strategy"
      [] after = "strategy" -> "mark"
      [] after = "mark"     -> "tick"

\* The calls of handle_incoming_tick in program order: where control goes
\* after the step named.
handle_incoming_tick(after) ==
    CASE after = "enter"    -> "strategy"
      [] after = "strategy" -> "match"
      [] after = "match"    -> "mark"
      [] after = "mark"     -> "tick"

-----------------------------------------------------------------------------
(* The program *)

Init ==
    /\ pc = "tick"
    /\ md = EmptyDict
    /\ current_prices = "None"
    /\ prices = <<>>
    /\ signal_value = Num(0)
    /\ signal_threshold = Num(0)
    /\ is_long = FALSE
    /\ is_short = FALSE
    /\ orders = <<>>
    /\ unfilled_orders = <<>>
    /\ positions = EmptyDict
    /\ cash = STARTING_CASH
    /\ rpnl = <<>>
    /\ upnl = <<>>
    /\ equity_curve = <<>>
    /\ fills = <<>>
    /\ exited = FALSE

LastTime == IF target_symbol \in DOMAIN md
            THEN get_timestamp(md, target_symbol) ELSE 0

\* The step of handle_incoming_tick that control is at.
RunStep(w, mac) ==
    CASE pc = "strategy" -> on_tick_event(w, mac)
      [] pc = "match"    -> match_order_book(w, w.md)
      [] pc = "mark"     -> print_position_status(w, target_symbol, w.md)

\* start_market_simulation, one iteration up to the call of event_tick, and
\* the first statement of handle_incoming_tick.
NextTick ==
    /\ pc = "tick"
    /\ \E time \in (LastTime + 1)..MaxTime, row \in Bars :
         md' = add_open_price(
                 add_last_price(md, time, target_symbol, row.close),
                 time, target_symbol, row.open)
    /\ current_prices' = "md"
    /\ pc' = handle_incoming_tick("enter")
    /\ UNCHANGED <<prices, signal_value, signal_threshold, is_long, is_short,
                   orders, unfilled_orders, positions, cash, rpnl, upnl,
                   equity_curve, fills, exited>>

\* self.strategy.on_tick_event(prices)
StrategyStep ==
    /\ pc = "strategy"
    /\ \E mac \in MacValues : Apply(RunStep(World, mac))
    /\ pc' = handle_incoming_tick(pc)

\* self.match_order_book(prices)
MatchStep ==
    /\ pc = "match"
    /\ LET w == RunStep(World, 0)
       IN  /\ Apply(w)
           /\ pc' = IF w.exited THEN "exited" ELSE handle_incoming_tick(pc)

\* self.print_position_status(self.target_symbol, prices)
MarkStep ==
    /\ pc = "mark"
    /\ Apply(RunStep(World, 0))
    /\ pc' = handle_incoming_tick(pc)

\* The data frame is exhausted: start_backtest returns.
EndOfData ==
    /\ pc = "tick"
    /\ pc' = "liquidate"
    /\ UNCHANGED <<md, current_prices, prices, signal_value, signal_threshold,
                   is_long, is_short, orders, unfilled_orders, positions,
                   cash, rpnl, upnl, equity_curve, fills, exited>>

\* Lines 391-394 raise when no tick was delivered (current_prices is None)
\* or no fill ever created the Position (KeyError).
LiquidateRaises ==
    /\ pc = "liquidate"
    /\ current_prices = "None" \/ target_symbol \notin DOMAIN positions
    /\ pc' = "raised"
    /\ UNCHANGED <<md, current_prices, prices, signal_value, signal_threshold,
                   is_long, is_short, orders, unfilled_orders, positions,
                   cash, rpnl, upnl, equity_curve, fills, exited>>

\* Faulty variant: the offsetting side is inverted.
direction_inverted(w) == w.positions[target_symbol].net > 0

\* direction (line 395), also used by the later step: net is not changed
\* between line 395 and line 398.
direction(w) == w.positions[target_symbol].net < 0

\* Lines 391-397: send_market_order of the offsetting order.
LiquidateSend ==
    /\ pc = "liquidate"
    /\ current_prices # "None" /\ target_symbol \in DOMAIN positions
    /\ Apply(send_market_order(World, target_symbol,
                               Abs(positions[target_symbol].net),
                               direction(World),
                               get_timestamp(md, target_symbol)))
    /\ pc' = "liq_fill"

\* Lines 398-399: update_filled_position at the last close.
LiquidateFill ==
    /\ pc = "liq_fill"
    /\ LET w == update_filled_position(World, target_symbol,
                    Abs(positions[target_symbol].net), direction(World),
                    get_last_price(md, target_symbol),
                    get_timestamp(md, target_symbol))
       IN  /\ Apply(w)
           /\ pc' = IF w.exited THEN "exited" ELSE "liq_match"

\* Line 400: match_order_book(prices)
LiquidateMatch ==
    /\ pc = "liq_match"
    /\ LET w == match_order_book(World, md)
       IN  /\ Apply(w)
           /\ pc' = IF w.exited THEN "exited" ELSE "liq_mark"

\* Line 401: print_position_status
LiquidateMark ==
    /\ pc = "liq_mark"
    /\ Apply(print_position_status(World, target_symbol, md))
    /\ pc' = "done"

Next ==
    \/ NextTick
    \/ StrategyStep
    \/ MatchStep
    \/ MarkStep
    \/ EndOfData
    \/ LiquidateRaises
    \/ LiquidateSend
    \/ LiquidateFill
    \/ LiquidateMatch
    \/ LiquidateMark

Spec == Init /\ [][Next]_vars

-----------------------------------------------------------------------------
(* Vocabulary of the properties *)

HasPosition == target_symbol \in DOMAIN positions

Net == IF HasPosition THEN positions[target_symbol].net ELSE 0

RealizedPnl == IF HasPosition THEN positions[target_symbol].realized_pnl
               ELSE 0

Now == get_timestamp(md, target_symbol)

\* Sum of sell qty * price minus sum of buy qty * price over a list of fills.
RECURSIVE SignedNotional(_)
SignedNotional(fs) ==
    IF fs = <<>> THEN 0
    ELSE LET f == fs[Len(fs)]
         IN  SignedNotional(SubSeq(fs, 1, Len(fs) - 1))
             + (IF f.is_buy THEN -1 ELSE 1) * f.qty * f.price

\* The rows of the strategy's price frame whose tick has had its matching
\* step: every stored tick, except the current one while matching is due.
RowsMatched ==
    IF pc = "match" THEN 1..(Len(prices) - 1) ELSE 1..Len(prices)

Pending == {unfilled_orders[i] : i \in 1..Len(unfilled_orders)}

-----------------------------------------------------------------------------
(* C1 *)

\* C1: an order submitted at tick T is in no state matched by tick T or an
\* earlier one; once a tick with a greater timestamp has been matched, the
\* order carries the fill of the first such tick (its timestamp, its open)
\* and the ledger has received exactly one fill with that timestamp, that
\* open price and the order's side and full quantity.
C1_FilledAtNextTickOpen ==
    \A o \in 1..Len(orders) :
        LET ord == orders[o]
            later == {i \in RowsMatched :
                        prices[i].timestamp > ord.timestamp}
        IN  IF later = {} THEN ~ord.is_filled
            ELSE LET f == CHOOSE i \in later :
                            \A j \in later :
                               prices[i].timestamp <= prices[j].timestamp
                 IN  /\ ord.is_filled
                     /\ ord.filled_timestamp = prices[f].timestamp
                     /\ ord.filled_price = prices[f].open
                     /\ Cardinality({k \in 1..Len(fills) :
                            fills[k] = [timestamp |-> prices[f].timestamp,
                                        is_buy |-> ord.is_buy,
                                        qty |-> ord.qty,
                                        price |-> prices[f].open]}) = 1

\* An order filled on the first later tick, which is not the tick numbered
\* T + 1, while the order submitted on the filling tick stays pending.
C1_Witness ==
    /\ pc = "mark"
    /\ \E o \in 1..Len(orders) :
          /\ orders[o].is_filled
          /\ orders[o].filled_timestamp = Now
          /\ orders[o].filled_timestamp > orders[o].timestamp + 1
    /\ \E o \in Pending : orders[o].timestamp = Now

-----------------------------------------------------------------------------
(* C2 *)

\* C2: cash is negative only in the exited program; every step starts with
\* cash >= 0 and the program not exited; and the step that drives cash below
\* zero is the step that exits: it applies that one fill and no other, and
\* appends no unrealized-P&L or equity sample.
C2_HaltOnNegativeCash ==
    /\ [](cash < 0 => exited /\ pc = "exited")
    /\ [][/\ cash >= 0
          /\ ~exited
          /\ cash' < 0 => /\ exited'
                          /\ pc' = "exited"
                          /\ Len(fills') = Len(fills) + 1
                          /\ upnl' = upnl
                          /\ equity_curve' = equity_curve
                          /\ prices' = prices]_vars

\* The halt during a tick's matching, with another order still pending and
\* no sample for that tick in the mark-to-market series.
C2_Witness ==
    /\ pc = "exited"
    /\ cash < 0
    /\ fills[Len(fills)].price = get_open_price(md, target_symbol)
    /\ \E o \in Pending : ~orders[o].is_filled
    /\ upnl # <<>>
    /\ \A i \in 1..Len(upnl) : upnl[i].key # Now

-----------------------------------------------------------------------------
(* C3 *)

\* C3: a tick is handled as strategy, then matching, then mark-to-market.
\* The strategy step stores the tick and touches neither ledger nor state
\* flags; the matching step submits nothing and fills at this tick only; the
\* mark step neither fills nor submits.  While the strategy decides, and
\* until matching runs, no fill of the ledger bears this tick's timestamp.
C3_StepOrder ==
    /\ [](pc \in {"strategy", "match"} =>
            \A k \in 1..Len(fills) : fills[k].timestamp < Now)
    /\ [][/\ pc = "tick" => pc' \in {"strategy", "liquidate"}
          /\ pc = "strategy" =>
                /\ pc' = "match"
                /\ prices' = Append(prices,
                      [timestamp |-> Now,
                       close |-> get_last_price(md, target_symbol),
                       open |-> get_open_price(md, target_symbol)])
                /\ UNCHANGED <<positions, cash, fills, is_long, is_short,
                               rpnl, upnl, equity_curve>>
          /\ pc = "match" =>
                /\ pc' \in {"mark", "exited"}
                /\ Len(orders') = Len(orders)
                /\ \A k \in (Len(fills) + 1)..Len(fills') :
                      fills'[k].timestamp = Now
                /\ UNCHANGED <<prices, upnl, equity_curve>>
          /\ pc = "mark" =>
                /\ pc' = "tick"
                /\ HasPosition =>
                      /\ upnl'[Len(upnl')].key = Now
                      /\ equity_curve'[Len(equity_curve')].key = Now
                /\ UNCHANGED <<prices, orders, unfilled_orders, fills, cash,
                               is_long, is_short, rpnl>>]_vars

\* A tick on which all four steps acted: an order submitted, an older order
\* filled, the ledger marked.
C3_Witness ==
    /\ pc = "tick"
    /\ \E o \in Pending : orders[o].timestamp = Now
    /\ \E k \in 1..Len(fills) : fills[k].timestamp = Now
    /\ upnl # <<>> /\ upnl[Len(upnl)].key = Now
    /\ is_long

-----------------------------------------------------------------------------
(* C4 *)

\* C4: in the state a mark-to-market call leaves, unrealized_pnl is 0 for a
\* flat ledger and otherwise close * net + position_value with the close of
\* the tick being processed, and that is the sample the series received.
C4_UnrealizedAtClose ==
    (pc \in {"tick", "done"} /\ HasPosition) =>
        LET p == positions[target_symbol]
            close_price == get_last_price(md, target_symbol)
        IN  /\ p.net = 0 => p.unrealized_pnl = 0
            /\ p.net # 0 =>
                 p.unrealized_pnl = close_price * p.net + p.position_value
            /\ upnl[Len(upnl)] = [key |-> Now, val |-> p.unrealized_pnl]

\* An open position marked at a close that differs from the fill price.
C4_Witness ==
    /\ pc = "tick"
    /\ HasPosition
    /\ positions[target_symbol].net < 0
    /\ positions[target_symbol].unrealized_pnl
         = get_last_price(md, target_symbol) * positions[target_symbol].net
           + positions[target_symbol].position_value
    /\ positions[target_symbol].unrealized_pnl # 0

-----------------------------------------------------------------------------
(* C5 *)

\* C5: a step changes realized_pnl only if it applies a fill that leaves net
\* at 0; a fill that leaves net nonzero keeps realized_pnl; and after a fill
\* that leaves net at 0, realized_pnl is the sum of sell qty * price minus
\* the sum of buy qty * price over all fills the ledger has received.
C5_RealizedOnlyAtFlat ==
    [][/\ RealizedPnl' # RealizedPnl =>
             Net' = 0 /\ Len(fills') = Len(fills) + 1
       /\ (Len(fills') > Len(fills) /\ Net' # 0) =>
             RealizedPnl' = RealizedPnl
       /\ (Len(fills') > Len(fills) /\ Net' = 0) =>
             RealizedPnl' = SignedNotional(fills')]_vars

\* A fill of the tick loop has brought the ledger back to flat with a
\* nonzero realized P&L.
C5_Witness ==
    /\ pc = "mark"
    /\ Len(fills) >= 2
    /\ fills[Len(fills)].timestamp = Now
    /\ Net = 0
    /\ RealizedPnl # 0
    /\ RealizedPnl = SignedNotional(fills)

-----------------------------------------------------------------------------
(* C6 *)

\* C6: is_long / is_short change only in a step that applies a fill; a step
\* that submits an order keeps them; after every step that applies a fill,
\* is_long is net > 0 and is_short is net < 0.
C6_StateFollowsFills ==
    [][/\ (is_long' # is_long \/ is_short' # is_short) =>
             Len(fills') > Len(fills)
       /\ Len(orders') > Len(orders) =>
             (is_long' = is_long /\ is_short' = is_short)
       /\ Len(fills') > Len(fills) =>
             (is_long' = (Net' > 0) /\ is_short' = (Net' < 0))]_vars

\* The strategy is SHORT by a fill, and the buy it has submitted since has
\* not changed that.
C6_Witness ==
    /\ pc = "mark"
    /\ is_short /\ ~is_long
    /\ Net < 0
    /\ \E o \in Pending : orders[o].is_buy /\ ~orders[o].is_filled

-----------------------------------------------------------------------------
(* C7 *)

\* C7: the strategy step submits nothing or exactly one market order of
\* NUM_CONTRACTS stamped with the tick: a buy only when signal > threshold
\* and not is_long, a sell only when signal < -threshold and not is_short.
\* The other steps of the tick loop submit nothing.
C7_OneGuardedOrderPerTick ==
    [][/\ pc \in {"tick", "match", "mark"} => Len(orders') = Len(orders)
       /\ pc = "strategy" =>
            \/ orders' = orders /\ unfilled_orders' = unfilled_orders
            \/ \E is_buy \in BOOLEAN :
                 /\ orders' = Append(orders,
                       Order(Now, target_symbol, NUM_CONTRACTS, is_buy, TRUE))
                 /\ unfilled_orders' =
                       Append(unfilled_orders, Len(orders) + 1)
                 /\ IF is_buy
                    THEN FGt(signal_value', signal_threshold') /\ ~is_long
                    ELSE FLt(signal_value', FNeg(signal_threshold'))
                         /\ ~is_short]_vars

\* A buy signal while LONG: the strategy has run on this tick and has
\* submitted nothing.
C7_Witness ==
    /\ pc = "match"
    /\ is_long
    /\ FGt(signal_value, signal_threshold)
    /\ \A o \in 1..Len(orders) : orders[o].timestamp # Now

-----------------------------------------------------------------------------
(* C8 *)

\* C8: in the tick loop the pending list never holds two orders of the same
\* side, that is, no buy is submitted while an earlier buy is still pending
\* (and likewise for sells).
C8_NoDuplicateEntry ==
    pc \in {"tick", "strategy", "match", "mark"} =>
        \A i, j \in 1..Len(unfilled_orders) :
            i < j => orders[unfilled_orders[i]].is_buy
                       # orders[unfilled_orders[j]].is_buy

-----------------------------------------------------------------------------
(* C9 *)

\* C9: an order becomes filled only in a matching step and only while
\* pending and unfilled; it is then stamped with the tick and its open, the
\* ledger receives one fill per order so filled, and the order has left the
\* pending list when the step returns.  A filled order never changes again
\* and is never pending again; an order not matched in a step stays as it is
\* and stays pending; an order leaves the pending list only by being filled.
\* In every state of the running program no pending order is marked filled.
C9_FilledOnceAndRemoved ==
    /\ [](pc # "exited" => \A o \in Pending : ~orders[o].is_filled)
    /\ [][LET newly == {o \in 1..Len(orders) :
                          ~orders[o].is_filled /\ orders'[o].is_filled}
          IN  /\ \A o \in 1..Len(orders) :
                    /\ orders[o].is_filled =>
                          orders'[o] = orders[o] /\ o \notin Pending'
                    /\ o \notin newly =>
                          /\ orders'[o] = orders[o]
                          /\ o \in Pending => o \in Pending'
                    /\ o \in newly =>
                          /\ pc \in {"match", "liq_match"}
                          /\ o \in Pending
                          /\ ~exited' => o \notin Pending'
                          /\ orders'[o] =
                               [orders[o] EXCEPT
                                  !.is_filled = TRUE,
                                  !.filled_timestamp = Now,
                                  !.filled_price =
                                     get_open_price(md, target_symbol)]
              /\ pc \in {"match", "liq_match"} =>
                    Len(fills') = Len(fills) + Cardinality(newly)
              /\ Cardinality(newly) = 1 =>
                    \E o \in newly :
                        fills'[Len(fills')].qty = orders[o].qty]_vars

\* A matching step has filled and removed one order and left another one
\* pending and unchanged.
C9_Witness ==
    /\ pc = "mark"
    /\ \E o \in 1..Len(orders) :
          /\ orders[o].is_filled
          /\ orders[o].filled_timestamp = Now
          /\ o \notin Pending
    /\ Len(unfilled_orders) = 1
    /\ ~orders[unfilled_orders[1]].is_filled

-----------------------------------------------------------------------------
(* C10 *)

-----------------------------------------------------------------------------
(* C11 *)

\* The order the liquidation block has sent: the last order created.
LiquidationOrder == Len(orders)

\* C11: when liquidation is over, the liquidation order has been filled by
\* order-book matching (it is marked filled, stamped with the matching tick
\* and its open, and that is the fill the ledger received last) and it is
\* no longer pending.
C11_LiquidationOrderMatched ==
    pc = "done" =>
        /\ orders[LiquidationOrder].is_filled
        /\ LiquidationOrder \notin Pending
        /\ fills[Len(fills)].price = orders[LiquidationOrder].filled_price

-----------------------------------------------------------------------------
(* C12 *)

KeysDistinct(series) ==
    \A i, j \in 1..Len(series) : i # j => series[i].key # series[j].key

\* C12: the matching step of a tick applies at most one fill; no step of a
\* tick adds more than one sample to a series and no step ever shortens one;
\* and every series holds at most one sample per tick: its keys are
\* distinct and it is no longer than the list of ticks delivered so far.
C12_OneSamplePerTick ==
    /\ [](/\ KeysDistinct(rpnl) /\ KeysDistinct(upnl)
          /\ KeysDistinct(equity_curve)
          /\ Len(rpnl) <= Len(prices)
          /\ Len(upnl) <= Len(prices)
          /\ Len(equity_curve) <= Len(prices))
    /\ [][/\ Len(rpnl') >= Len(rpnl)
          /\ Len(upnl') >= Len(upnl)
          /\ Len(equity_curve') >= Len(equity_curve)
          /\ pc = "match" => Len(fills') <= Len(fills) + 1
          /\ pc \in {"tick", "strategy", "match", "mark"} =>
                /\ Len(rpnl') <= Len(rpnl) + 1
                /\ Len(upnl') <= Len(upnl) + 1
                /\ Len(equity_curve') <= Len(equity_curve) + 1]_vars

\* Two ticks in a row have each added a sample to all three series.
C12_Witness ==
    /\ pc = "tick"
    /\ Len(rpnl) >= 2 /\ Len(upnl) >= 2 /\ Len(equity_curve) >= 2
    /\ rpnl[Len(rpnl)].key = Now
    /\ upnl[Len(upnl)].key = Now
    /\ equity_curve[Len(equity_curve)].key = Now

-----------------------------------------------------------------------------
(* C14 *)

Keys(series) == [i \in 1..Len(series) |-> series[i].key]

\* The timestamps of the ticks delivered so far, from timestamp t on.
TicksFrom(t) ==
    LET stamps == [i \in 1..Len(prices) |-> prices[i].timestamp]
        NotBefore(s) == s >= t
    IN  SelectSeq(stamps, NotBefore)

\* C14 as stated: when a tick's processing is over, the unrealized-P&L and
\* equity series hold one sample per tick delivered, from the first tick on.
C14_MarkedEveryTick ==
    pc = "tick" =>
        /\ Keys(upnl) = TicksFrom(0)
        /\ Keys(equity_curve) = TicksFrom(0)

\* C14 as amended: the mark step of a tick appends exactly one unrealized-P&L
\* sample and one equity sample keyed by the tick, computed at the tick's
\* close after the tick's fills, when the ledger exists, and nothing when it
\* does not; so when a tick's processing is over the two series hold one
\* sample for every tick from the tick of the first fill on, and none before.
C14_MarkedOnceLedgerExists ==
    /\ [](pc = "tick" =>
            IF fills = <<>>
            THEN upnl = <<>> /\ equity_curve = <<>>
            ELSE /\ Keys(upnl) = TicksFrom(fills[1].timestamp)
                 /\ Keys(equity_curve) = TicksFrom(fills[1].timestamp))
    /\ [][pc = "mark" =>
            IF HasPosition
            THEN LET close_price == get_last_price(md, target_symbol)
                 IN  /\ upnl' = Append(upnl,
                           [key |-> Now,
                            val |-> IF Net = 0 THEN 0
                                    ELSE close_price * Net
                                         + positions[target_symbol]
                                             .position_value])
                     /\ equity_curve' = Append(equity_curve,
                           [key |-> Now, val |-> cash + close_price * Net])
            ELSE UNCHANGED <<upnl, equity_curve>>]_vars

\* Ticks before the first fill have no sample, the ticks since have one
\* each, the last of them taken with the ledger flat again.
C14_Witness ==
    /\ pc = "tick"
    /\ Len(upnl) >= 2
    /\ Len(upnl) < Len(prices)
    /\ Len(equity_curve) = Len(upnl)
    /\ Net = 0

-----------------------------------------------------------------------------
(* C15 *)

\* C15: when the strategy has run on a tick whose crossover is nonzero, it
\* has submitted an order of the signal's side stamped with the tick, unless
\* it was already positioned on that side; also on the early ticks, where
\* the volatility is undefined.
C15_NonzeroSignalTrades ==
    pc = "match" =>
        /\ (signal_value.val > 0 /\ ~is_long) =>
              \E o \in Pending : /\ orders[o].timestamp = Now
                                 /\ orders[o].is_buy
        /\ (signal_value.val < 0 /\ ~is_short) =>
              \E o \in Pending : /\ orders[o].timestamp = Now
                                 /\ ~orders[o].is_buy

-----------------------------------------------------------------------------
(* The order book on its own *)

\* In the tick loop at most one pending order is eligible on a tick.  To
\* see how match_order_book treats several, the Backtester's order book is
\* driven here through its two entry points (handle_order by way of
\* send_market_order, and match_order_book) by a caller that may submit
\* any number of orders, up to MaxOrders, between ticks.
MaxOrders == 3

InitBook ==
    /\ pc = "book"
    /\ md = EmptyDict
    /\ current_prices = "None"
    /\ prices = <<>>
    /\ signal_value = Num(0)
    /\ signal_threshold = Num(0)
    /\ is_long = FALSE
    /\ is_short = FALSE
    /\ orders = <<>>
    /\ unfilled_orders = <<>>
    /\ positions = EmptyDict
    /\ cash = STARTING_CASH
    /\ rpnl = <<>>
    /\ upnl = <<>>
    /\ equity_curve = <<>>
    /\ fills = <<>>
    /\ exited = FALSE

\* A tick is recorded (add_last_price, add_open_price) and made current.
BookTick ==
    /\ pc = "book"
    /\ \E time \in (LastTime + 1)..MaxTime, row \in Bars :
         md' = add_open_price(
                 add_last_price(md, time, target_symbol, row.close),
                 time, target_symbol, row.open)
    /\ current_prices' = "md"
    /\ UNCHANGED <<pc, prices, signal_value, signal_threshold, is_long,
                   is_short, orders, unfilled_orders, positions, cash, rpnl,
                   upnl, equity_curve, fills, exited>>

\* send_market_order at the current tick.
BookSubmit ==
    /\ pc = "book"
    /\ current_prices # "None"
    /\ Len(orders) < MaxOrders
    /\ \E is_buy \in BOOLEAN :
         Apply(send_market_order(World, target_symbol, NUM_CONTRACTS, is_buy,
                                 get_timestamp(md, target_symbol)))
    /\ pc' = pc

\* match_order_book against the current tick.
BookMatch ==
    /\ pc = "book"
    /\ current_prices # "None"
    /\ LET w == match_order_book(World, md)
       IN  /\ Apply(w)
           /\ pc' = IF w.exited THEN "exited" ELSE pc

NextBook ==
    \/ BookTick
    \/ BookSubmit
    \/ BookMatch

SpecBook == InitBook /\ [][NextBook]_vars

-----------------------------------------------------------------------------
(* C16 *)

\* C16: a matching step hands the ledger the fills of the eligible pending
\* orders in the order of the pending list, which is submission order, each
\* at the tick's open and for the order's quantity; when the step returns,
\* all eligible orders are filled and the pending list is the old one
\* without them, the rest in their old order.  When a fill exits the
\* program the fills handed over are a prefix of that sequence.
C16_FifoMatching ==
    [][LET Eligible(o) == /\ orders[o].is_market_order
                          /\ Now > orders[o].timestamp
           NotEligible(o) == ~Eligible(o)
           due == SelectSeq(unfilled_orders, Eligible)
           n == Len(fills') - Len(fills)
       IN  (md' = md /\ Len(orders') = Len(orders)) =>
              /\ n <= Len(due)
              /\ SubSeq(fills', 1, Len(fills)) = fills
              /\ \A k \in 1..n :
                    /\ fills'[Len(fills) + k] =
                          [timestamp |-> Now,
                           is_buy |-> orders[due[k]].is_buy,
                           qty |-> orders[due[k]].qty,
                           price |-> get_open_price(md, target_symbol)]
                    /\ orders'[due[k]].is_filled
              /\ ~exited' =>
                    /\ n = Len(due)
                    /\ unfilled_orders' =
                          SelectSeq(unfilled_orders, NotEligible)
              /\ exited' => n >= 1]_vars

\* Order 1 was filled on the tick on which orders 2 (a buy) and 3 (a sell)
\* were submitted; these two were eligible together on a later tick and
\* were filled on it in that order.
C16_Witness ==
    /\ pc = "book"
    /\ Len(orders) = 3
    /\ Len(fills) = 3
    /\ orders[1].filled_timestamp = orders[2].timestamp
    /\ orders[2].timestamp = orders[3].timestamp
    /\ orders[2].is_buy /\ ~orders[3].is_buy
    /\ orders[2].filled_timestamp = Now /\ orders[3].filled_timestamp = Now
    /\ fills[2].is_buy /\ ~fills[3].is_buy
    /\ unfilled_orders = <<>>
-----------------------------------------------------------------------------
(* Queries by symbol *)

\* In a run every query is for target_symbol and comes after its first
\* tick.  To see what the queries do for a symbol without a recorded tick,
\* MarketData and the Backtester's position queries are called here for
\* any symbol of Symbols, in any order, between ticks of either symbol.
Symbols == {target_symbol, "ETHUSD"}

TickTime(s) == IF s \in DOMAIN md THEN get_timestamp(md, s) ELSE 0

InitQuery ==
    /\ pc = "query"
    /\ md = EmptyDict
    /\ current_prices = "None"
    /\ prices = <<>>
    /\ signal_value = Num(0)
    /\ signal_threshold = Num(0)
    /\ is_long = FALSE
    /\ is_short = FALSE
    /\ orders = <<>>
    /\ unfilled_orders = <<>>
    /\ positions = EmptyDict
    /\ cash = STARTING_CASH
    /\ rpnl = <<>>
    /\ upnl = <<>>
    /\ equity_curve = <<>>
    /\ fills = <<>>
    /\ exited = FALSE

\* A tick of a symbol is recorded and the prices are made current.
QueryTick ==
    /\ pc = "query"
    /\ \E s \in Symbols, time \in 1..MaxTime, row \in Bars :
         /\ time > TickTime(s)
         /\ md' = add_open_price(add_last_price(md, time, s, row.close),
                                 time, s, row.open)
    /\ current_prices' = "md"
    /\ UNCHANGED <<pc, prices, signal_value, signal_threshold, is_long,
                   is_short, orders, unfilled_orders, positions, cash, rpnl,
                   upnl, equity_curve, fills, exited>>

\* get_last_price, get_open_price, get_timestamp: the value of the entry,
\* or KeyError when the symbol has none.
QueryPrice ==
    /\ pc = "query"
    /\ \E s \in Symbols :
         pc' = IF s \in DOMAIN md THEN pc ELSE "raised"
    /\ UNCHANGED <<md, current_prices, prices, signal_value,
                   signal_threshold, is_long, is_short, orders,
                   unfilled_orders, positions, cash, rpnl, upnl,
                   equity_curve, fills, exited>>

\* get_existing_tick_data
QueryExistingTickData ==
    /\ pc = "query"
    /\ \E s \in Symbols, time \in 1..MaxTime :
         md' = get_existing_tick_data(md, s, time)
    /\ UNCHANGED <<pc, current_prices, prices, signal_value,
                   signal_threshold, is_long, is_short, orders,
                   unfilled_orders, positions, cash, rpnl, upnl,
                   equity_curve, fills, exited>>

\* get_position
QueryPosition ==
    /\ pc = "query"
    /\ \E s \in Symbols : Apply(get_position(World, s))
    /\ pc' = pc

\* print_position_status: nothing when the symbol has no position; with a
\* position, AttributeError when no prices are current yet and KeyError
\* when the symbol or the target symbol has no entry.
QueryStatus ==
    /\ pc = "query"
    /\ \E s \in Symbols :
         IF /\ s \in DOMAIN positions
            /\ \/ current_prices = "None"
               \/ s \notin DOMAIN md
               \/ target_symbol \notin DOMAIN md
         THEN /\ pc' = "raised"
              /\ UNCHANGED <<md, current_prices, prices, signal_value,
                             signal_threshold, is_long, is_short, orders,
                             unfilled_orders, positions, cash, rpnl, upnl,
                             equity_curve, fills, exited>>
         ELSE /\ Apply(print_position_status(World, s, md))
              /\ pc' = pc

NextQuery ==
    \/ QueryTick
    \/ QueryPrice
    \/ QueryExistingTickData
    \/ QueryPosition
    \/ QueryStatus

SpecQuery == InitQuery /\ [][NextQuery]_vars

-----------------------------------------------------------------------------
(* C17 *)

\* C17: a query for a symbol with no recorded tick ends in an error and
\* creates nothing: while no error has been raised, every price entry is
\* one a tick recorded (it carries the tick's prices), and every symbol with
\* a position entry has a recorded tick.
C17_UnknownSymbolQueryRaises ==
    pc = "query" =>
        /\ \A s \in DOMAIN md : md[s].last_price # 0
        /\ DOMAIN positions \subseteq DOMAIN md

-----------------------------------------------------------------------------
(* C18 *)

\* C18: cash is the starting cash plus the ledger's signed notional
\* (position_value) in every state, a fill that exits the program included;
\* and after a mark-to-market the ledger's equity, which is the sample the
\* equity curve received, is the starting cash plus unrealized_pnl while the
\* position is open and the starting cash plus realized_pnl while it is flat.
C18_CashConserved ==
    /\ ~HasPosition => cash = STARTING_CASH
    /\ HasPosition =>
         cash = STARTING_CASH + positions[target_symbol].position_value
    /\ (pc \in {"tick", "done"} /\ HasPosition) =>
         LET p == positions[target_symbol]
         IN  /\ p.net # 0 => p.equity = STARTING_CASH + p.unrealized_pnl
             /\ p.net = 0 => p.equity = STARTING_CASH + p.realized_pnl
             /\ equity_curve[Len(equity_curve)] =
                    [key |-> Now, val |-> p.equity]

\* A round trip with a nonzero result has been marked flat, after a mark
\* of the open position at an equity other than the starting cash.
C18_Witness ==
    /\ pc = "tick"
    /\ HasPosition
    /\ Net = 0
    /\ RealizedPnl # 0
    /\ positions[target_symbol].equity = STARTING_CASH + RealizedPnl
    /\ cash = positions[target_symbol].equity
    /\ Len(equity_curve) >= 2
    /\ equity_curve[Len(equity_curve) - 1].val # STARTING_CASH
    /\ equity_curve[Len(equity_curve) - 1].val # cash

-----------------------------------------------------------------------------
(* C19 *)

\* Net position plus the signed quantity of the pending order (read where
\* at most one order is pending).
Committed ==
    Net + (IF unfilled_orders = <<>> THEN 0
           ELSE LET o == orders[unfilled_orders[1]]
                IN  IF o.is_buy THEN o.qty ELSE -o.qty)

\* C19: in every state of the tick loop the net position is a multiple of
\* NUM_CONTRACTS of magnitude at most 2 * NUM_CONTRACTS; and when a tick's
\* processing has ended at most one order is pending, it is unfilled and was
\* submitted on that tick, and the net position together with it is within
\* the same bound (which is what keeps the next fill within it).
C19_BoundedExposure ==
    /\ pc \in {"tick", "strategy", "match", "mark", "liquidate"} =>
         /\ Net % NUM_CONTRACTS = 0
         /\ Abs(Net) <= 2 * NUM_CONTRACTS
    /\ pc = "tick" =>
         /\ Len(unfilled_orders) <= 1
         /\ \A o \in Pending :
               /\ orders[o].timestamp = Now
               /\ ~orders[o].is_filled
         /\ Abs(Committed) <= 2 * NUM_CONTRACTS

\* Two buys were filled on consecutive ticks, and the sell submitted on the
\* tick of the second is the one pending order.
C19_Witness ==
    /\ pc = "tick"
    /\ Net = 2 * NUM_CONTRACTS
    /\ Len(unfilled_orders) = 1
    /\ ~orders[unfilled_orders[1]].is_buy
    /\ orders[unfilled_orders[1]].timestamp = Now

====
